---- MODULE Spec2Model ----
(***************************************************************************)
(* Model of APP.py, the Streamlit page "Methylene Blue Adsorption          *)
(* Predictor".  The script is re-executed from top to bottom for every     *)
(* user interaction of a browser session (a "request").  The only state    *)
(* shared by sessions is the st.cache_resource entry of load_model; the    *)
(* widget values are kept per session between requests; everything else    *)
(* is a local of one run of the script.                                    *)
(*                                                                         *)
(* Numbers: the values of the number_input widgets are integers counted in *)
(* hundredths (0.01 is the finest min_value/step of the form), the model   *)
(* output is counted in ten-thousandths and the rounded output in          *)
(* thousandths.  An absent value (Python None) is <<>>, a present one <<v>>.*)
(*                                                                         *)
(* Spec follows one visitor through the whole form; SpecLoad lets every    *)
(* session run the script at once, the inputs left at their defaults, to   *)
(* interleave the steps of the cached load_model.  The behaviour of        *)
(* st.cache_resource, st.number_input and st.button is that of Streamlit.  *)
(***************************************************************************)
EXTENDS Integers, Sequences, FiniteSets, TLC

\* ----------------------------------------------------------------------
\* Bounds of the model
\* ----------------------------------------------------------------------
NumSessions == 2
MaxRequests == 4
MaxEdits == 2

Sessions == 1..NumSessions

\* ----------------------------------------------------------------------
\* The form (APP.py 113-133)
\* ----------------------------------------------------------------------
\* The twelve inputs, named as the script's locals, in the order the
\* widgets are created.
Fields ==
  <<"T_H", "time", "modified", "ratio", "C", "HC", "OC", "ONC", "BET", "pH", "T", "C0">>

FieldSet == {Fields[i] : i \in 1..Len(Fields)}
NumberFields == FieldSet \ {"modified"}

\* min_value of each number_input, in hundredths
MinValue ==
  [T_H |-> 8000, time |-> 50, ratio |-> 1, C |-> 1000, HC |-> 1, OC |-> 1,
   ONC |-> 1, BET |-> 500, pH |-> 100, T |-> 1000, C0 |-> 10]

\* max_value of each number_input, in hundredths
MaxValue ==
  [T_H |-> 30000, time |-> 4800, ratio |-> 100, C |-> 9000, HC |-> 200, OC |-> 200,
   ONC |-> 200, BET |-> 200000, pH |-> 1400, T |-> 6000, C0 |-> 50000]

\* value= of each number_input, in hundredths
DefaultValue ==
  [T_H |-> 18000, time |-> 600, ratio |-> 10, C |-> 6000, HC |-> 30, OC |-> 20,
   ONC |-> 50, BET |-> 40000, pH |-> 700, T |-> 2500, C0 |-> 10000]

\* options of the selectbox; the first one is selected until the user picks
Options == <<"No", "Yes">>

\* variant: number_input without value= starts at min_value
InitialWidgetsMin ==
  [f \in FieldSet |-> IF f = "modified" THEN Options[1] ELSE MinValue[f]]

\* the widget state of a session that has not touched any input
InitialWidgets ==
  [f \in FieldSet |-> IF f = "modified" THEN Options[1] ELSE DefaultValue[f]]

\* What the user can type into a number_input: the two ends of the range and
\* the nearest values outside of it.
Typed(f) == {MinValue[f] - 1, MinValue[f], MaxValue[f], MaxValue[f] + 1}

\* variant: a number_input without min_value/max_value takes whatever is typed
NumberInputUnchecked(f, old, v) == v

\* number_input(min_value, max_value): the widget takes a typed value only
\* when it lies in the closed range; otherwise it keeps the value it has.
NumberInput(f, old, v) ==
  IF MinValue[f] <= v /\ v <= MaxValue[f] THEN v ELSE old

\* modified_val = 1 if modified == "Yes" else 0
ModifiedVal(modified) == IF modified = "Yes" THEN 1 ELSE 0

\* variant: the vector assembled in the order of another layout of the form
InputArraySwapped(w) ==
  <<w["T_H"], w["time"], w["ratio"], ModifiedVal(w["modified"]), w["C"], w["ONC"],
    w["HC"], w["OC"], w["BET"], w["pH"], w["T"], w["C0"]>>

\* input_array = np.array([[T_H, time, modified_val, ratio, C, HC, OC, ONC,
\*                          BET, pH, T, C0]])
InputArray(w) ==
  <<w["T_H"], w["time"], ModifiedVal(w["modified"]), w["ratio"], w["C"], w["HC"],
    w["OC"], w["ONC"], w["BET"], w["pH"], w["T"], w["C0"]>>

\* model.predict(input_array)[0]: the estimator is an opaque artifact; it is a
\* fixed function of the vector, the same for every handle unpickled from the
\* same file.  Result in ten-thousandths of mmol/g.
RECURSIVE WeightedSum(_, _)
WeightedSum(x, i) == IF i = 0 THEN 0 ELSE i * x[i] + WeightedSum(x, i - 1)

ModelPredict(h, x) == WeightedSum(x, Len(x)) % 20011

\* round(prediction, 3): ten-thousandths to thousandths, ties to even
Round3(p) ==
  LET q == p \div 10
      r == p % 10
  IN  IF r < 5 THEN q
      ELSE IF r > 5 THEN q + 1
      ELSE IF q % 2 = 0 THEN q ELSE q + 1

\* ----------------------------------------------------------------------
\* The result table and its CSV text (APP.py 147-158)
\* ----------------------------------------------------------------------
\* the column labels in the order of the dict (the degree sign, the
\* superscript 2 and the subscript 0 of the labels are written C, 2 and 0)
Columns ==
  <<"T_H (C)", "Time (h)", "Modified", "S/L Ratio (g/mL)", "C (wt%)", "H/C", "O/C",
    "(O+N)/C", "BET (m2/g)", "pH", "T (C)", "C0 (mg/g)", "Predicted Q (mmol/g)">>

ColumnSet == {Columns[i] : i \in 1..Len(Columns)}

\* the column that shows input f
ColumnOf ==
  [T_H |-> "T_H (C)", time |-> "Time (h)", modified |-> "Modified",
   ratio |-> "S/L Ratio (g/mL)", C |-> "C (wt%)", HC |-> "H/C", OC |-> "O/C",
   ONC |-> "(O+N)/C", BET |-> "BET (m2/g)", pH |-> "pH", T |-> "T (C)",
   C0 |-> "C0 (mg/g)"]

\* variant: the H/C and O/C columns filled from each other's input
DfResultCrossed(w, p) ==
  [c \in ColumnSet |->
     CASE c = "T_H (C)" -> w["T_H"]
       [] c = "Time (h)" -> w["time"]
       [] c = "Modified" -> w["modified"]
       [] c = "S/L Ratio (g/mL)" -> w["ratio"]
       [] c = "C (wt%)" -> w["C"]
       [] c = "H/C" -> w["OC"]
       [] c = "O/C" -> w["HC"]
       [] c = "(O+N)/C" -> w["ONC"]
       [] c = "BET (m2/g)" -> w["BET"]
       [] c = "pH" -> w["pH"]
       [] c = "T (C)" -> w["T"]
       [] c = "C0 (mg/g)" -> w["C0"]
       [] c = "Predicted Q (mmol/g)" -> Round3(p)]

\* df_result = pd.DataFrame([{...}]): one row, a value per column.  The row
\* holds the selectbox option itself in "Modified", not modified_val.
DfResult(w, p) ==
  [c \in ColumnSet |->
     CASE c = "T_H (C)" -> w["T_H"]
       [] c = "Time (h)" -> w["time"]
       [] c = "Modified" -> w["modified"]
       [] c = "S/L Ratio (g/mL)" -> w["ratio"]
       [] c = "C (wt%)" -> w["C"]
       [] c = "H/C" -> w["HC"]
       [] c = "O/C" -> w["OC"]
       [] c = "(O+N)/C" -> w["ONC"]
       [] c = "BET (m2/g)" -> w["BET"]
       [] c = "pH" -> w["pH"]
       [] c = "T (C)" -> w["T"]
       [] c = "C0 (mg/g)" -> w["C0"]
       [] c = "Predicted Q (mmol/g)" -> Round3(p)]

DigitChars == <<"0", "1", "2", "3", "4", "5", "6", "7", "8", "9">>
DigitSet == {DigitChars[i] : i \in 1..10}

RECURSIVE Pow10(_)
Pow10(k) == IF k = 0 THEN 1 ELSE 10 * Pow10(k - 1)

\* decimal digits of a natural number
RECURSIVE NatChars(_)
NatChars(n) ==
  IF n < 10 THEN <<DigitChars[n + 1]>>
  ELSE NatChars(n \div 10) \o <<DigitChars[(n % 10) + 1]>>

\* the k digits of a fraction fr / 10^k
RECURSIVE FracChars(_, _)
FracChars(fr, k) ==
  IF k = 0 THEN <<>>
  ELSE FracChars(fr \div 10, k - 1) \o <<DigitChars[(fr % 10) + 1]>>

\* drop trailing zeros, keeping one digit
RECURSIVE StripZeros(_)
StripZeros(d) ==
  IF Len(d) > 1 /\ d[Len(d)] = "0" THEN StripZeros(SubSeq(d, 1, Len(d) - 1)) ELSE d

\* variant: to_csv(float_format="%.1f"), one digit after the point
FloatReprOneDigit(v, k) ==
  NatChars(v \div Pow10(k)) \o <<".">> \o SubSeq(FracChars(v % Pow10(k), k), 1, 1)

\* the text pandas writes for the float v / 10^k: shortest repr, always
\* with a decimal point ("180.0", "0.1", "0.05")
FloatRepr(v, k) ==
  NatChars(v \div Pow10(k)) \o <<".">> \o StripZeros(FracChars(v % Pow10(k), k))

OptionChars == [No |-> <<"N", "o">>, Yes |-> <<"Y", "e", "s">>]

\* the text of one cell of the data row
CellText(c, v) ==
  IF c = "Modified" THEN OptionChars[v]
  ELSE IF c = "Predicted Q (mmol/g)" THEN FloatRepr(v, 3)
  ELSE FloatRepr(v, 2)

\* cells joined by commas
RECURSIVE JoinCells(_)
JoinCells(cells) ==
  IF Len(cells) = 0 THEN <<>>
  ELSE IF Len(cells) = 1 THEN cells[1]
  ELSE cells[1] \o <<",">> \o JoinCells(Tail(cells))

\* df_result.to_csv(towrite, index=False): header line and data line.  A
\* column label is written verbatim (none holds a comma or a quote) and is
\* kept as one token of the line.
ToCsv(df) ==
  <<JoinCells([i \in 1..Len(Columns) |-> <<Columns[i]>>]),
    JoinCells([i \in 1..Len(Columns) |-> CellText(Columns[i], df[Columns[i]])])>>

\* ----------------------------------------------------------------------
\* Reading the CSV text back (the reader of the exported file)
\* ----------------------------------------------------------------------
\* split a line at the commas
RECURSIVE SplitCells(_, _)
SplitCells(line, cur) ==
  IF Len(line) = 0 THEN <<cur>>
  ELSE IF line[1] = "," THEN <<cur>> \o SplitCells(Tail(line), <<>>)
  ELSE SplitCells(Tail(line), Append(cur, line[1]))

RECURSIVE DigitsValue(_)
DigitsValue(d) ==
  IF Len(d) = 0 THEN 0
  ELSE 10 * DigitsValue(SubSeq(d, 1, Len(d) - 1))
       + (CHOOSE n \in 0..9 : DigitChars[n + 1] = d[Len(d)])

RECURSIVE PointAt(_, _)
PointAt(d, i) == IF i > Len(d) THEN 0 ELSE IF d[i] = "." THEN i ELSE PointAt(d, i + 1)

IsNumber(cell) ==
  /\ Len(cell) > 0
  /\ \A i \in 1..Len(cell) : cell[i] \in DigitSet \cup {"."}
  /\ Cardinality({i \in 1..Len(cell) : cell[i] = "."}) <= 1

\* the number a numeric cell denotes, in thousandths
NumberOf(cell) ==
  LET p == PointAt(cell, 1)
      ip == IF p = 0 THEN cell ELSE SubSeq(cell, 1, p - 1)
      fp == IF p = 0 THEN <<>> ELSE SubSeq(cell, p + 1, Len(cell))
      f3 == SubSeq(fp \o <<"0", "0", "0">>, 1, 3)
  IN  1000 * DigitsValue(ip) + DigitsValue(f3)

\* a parsed cell: a number (in thousandths) or a text
Num(n) == [num |-> n, text |-> <<>>]
Text(t) == [num |-> -1, text |-> t]
ParseCell(cell) == IF IsNumber(cell) THEN Num(NumberOf(cell)) ELSE Text(cell)

\* the table read back: column label -> parsed cell of the data row
ParseCsv(csv) ==
  LET head == SplitCells(csv[1], <<>>)
      data == SplitCells(csv[2], <<>>)
  IN  [c \in {head[i][1] : i \in 1..Len(head)} |->
         ParseCell(data[CHOOSE i \in 1..Len(head) : head[i][1] = c])]

\* ----------------------------------------------------------------------
\* State
\* ----------------------------------------------------------------------
VARIABLES
  artifact,     \* the file HGB_clean.pkl: "ok", "missing" or "corrupt"
  cache,        \* st.cache_resource entry of load_model: 0 (none) or a handle
  lock,         \* holder of the entry's compute lock, 0 when free
  loads,        \* number of joblib.load calls made so far in the process
  fails,        \* how many of them raised
  pc,           \* per session: where its run of the script stands
  trigger,      \* per session: the interaction that started the current run
  req,          \* per session: number of runs started
  edits,        \* number of values typed or picked so far, all sessions
  widgets,      \* per session: the value each input widget holds
  supplied,     \* per session: the inputs the user gave a value to
  refused,      \* per session: the input whose last typed value was refused
  model,        \* per session: local `model` of the run (0 before line 104)
  input_array,  \* per session: <<vector>> passed to model.predict in this run
  prediction,   \* per session: local `prediction`
  df_result,    \* per session: local `df_result`
  download,     \* per session: the download button of the page, with its data
  calls,        \* per session: model.predict calls made in this run
  err,          \* per session: the exception that ended the run, or "none"
  prev          \* per session: inputs and row of the latest earlier prediction

shared == <<artifact, cache, lock, loads, fails>>
session == <<pc, trigger, req, edits, widgets, supplied, refused>>
locals == <<model, input_array, prediction, df_result, download, calls, err, prev>>
vars == <<artifact, cache, lock, loads, fails, pc, trigger, req, edits, widgets,
          supplied, refused, model, input_array, prediction, df_result, download,
          calls, err, prev>>

RECURSIVE SumTo(_, _)
SumTo(f, n) == IF n = 0 THEN 0 ELSE f[n] + SumTo(f, n - 1)
Requests == SumTo(req, NumSessions)

Init ==
  /\ artifact \in {"ok", "missing", "corrupt"}
  /\ cache = 0
  /\ lock = 0
  /\ loads = 0
  /\ fails = 0
  /\ pc = [s \in Sessions |-> "new"]
  /\ trigger = [s \in Sessions |-> "none"]
  /\ req = [s \in Sessions |-> 0]
  /\ edits = 0
  /\ widgets = [s \in Sessions |-> InitialWidgets]
  /\ supplied = [s \in Sessions |-> {}]
  /\ refused = [s \in Sessions |-> "none"]
  /\ model = [s \in Sessions |-> 0]
  /\ input_array = [s \in Sessions |-> <<>>]
  /\ prediction = [s \in Sessions |-> <<>>]
  /\ df_result = [s \in Sessions |-> <<>>]
  /\ download = [s \in Sessions |-> <<>>]
  /\ calls = [s \in Sessions |-> 0]
  /\ err = [s \in Sessions |-> "none"]
  /\ prev = [s \in Sessions |-> <<>>]

\* ----------------------------------------------------------------------
\* Interactions: each one starts a new run of the whole script
\* ----------------------------------------------------------------------
\* The page of the last run shows the form (the run got past line 104).
FormShown(s) == pc[s] = "done" /\ model[s] # 0

\* variant: the result of the previous run is kept (st.session_state style)
StartRunKeeping(s, t) ==
  /\ Requests < MaxRequests
  /\ pc' = [pc EXCEPT ![s] = "load_model"]
  /\ trigger' = [trigger EXCEPT ![s] = t]
  /\ req' = [req EXCEPT ![s] = @ + 1]
  /\ model' = [model EXCEPT ![s] = 0]
  /\ calls' = [calls EXCEPT ![s] = 0]
  /\ err' = [err EXCEPT ![s] = "none"]
  /\ UNCHANGED <<input_array, prediction, df_result, download, prev>>

\* A new run begins: the page and the locals of the previous run are gone
\* (prediction and df_result are None again, lines 136-137; the download
\* button exists only if this run creates it).
StartRun(s, t) ==
  /\ Requests < MaxRequests
  /\ pc' = [pc EXCEPT ![s] = "load_model"]
  /\ trigger' = [trigger EXCEPT ![s] = t]
  /\ req' = [req EXCEPT ![s] = @ + 1]
  /\ model' = [model EXCEPT ![s] = 0]
  /\ input_array' = [input_array EXCEPT ![s] = <<>>]
  /\ prediction' = [prediction EXCEPT ![s] = <<>>]
  /\ df_result' = [df_result EXCEPT ![s] = <<>>]
  /\ download' = [download EXCEPT ![s] = <<>>]
  /\ calls' = [calls EXCEPT ![s] = 0]
  /\ err' = [err EXCEPT ![s] = "none"]
  /\ prev' = [prev EXCEPT ![s] =
                IF df_result[s] # <<>>
                THEN <<[inputs |-> widgets[s], row |-> df_result[s][1]]>>
                ELSE @]

\* the browser opens the page, or the user reruns it
Rerun(s) ==
  /\ pc[s] \in {"new", "done"}
  /\ StartRun(s, "rerun")
  /\ UNCHANGED <<shared, edits, widgets, supplied, refused>>

\* the user types v into number_input f and the widget takes it
NumberInputCommit(s, f, v) ==
  /\ FormShown(s)
  /\ edits < MaxEdits
  /\ NumberInput(f, widgets[s][f], v) # widgets[s][f]
  /\ edits' = edits + 1
  /\ widgets' = [widgets EXCEPT ![s][f] = NumberInput(f, @, v)]
  /\ supplied' = [supplied EXCEPT ![s] = @ \cup {f}]
  /\ refused' = [refused EXCEPT ![s] = "none"]
  /\ StartRun(s, "edit")
  /\ UNCHANGED shared

\* the user types v into number_input f and the widget keeps its value:
\* nothing is sent to the script
NumberInputRefuse(s, f, v) ==
  /\ FormShown(s)
  /\ edits < MaxEdits
  /\ v # widgets[s][f]
  /\ NumberInput(f, widgets[s][f], v) = widgets[s][f]
  /\ edits' = edits + 1
  /\ refused' = [refused EXCEPT ![s] = f]
  /\ UNCHANGED <<shared, pc, trigger, req, widgets, supplied, locals>>

\* the user picks another option of the selectbox
Selectbox(s, o) ==
  /\ FormShown(s)
  /\ edits < MaxEdits
  /\ o # widgets[s]["modified"]
  /\ edits' = edits + 1
  /\ widgets' = [widgets EXCEPT ![s]["modified"] = o]
  /\ supplied' = [supplied EXCEPT ![s] = @ \cup {"modified"}]
  /\ StartRun(s, "edit")
  /\ UNCHANGED <<shared, refused>>

\* the user clicks "Predict Adsorption Capacity"
ClickPredict(s) ==
  /\ FormShown(s)
  /\ StartRun(s, "predict")
  /\ UNCHANGED <<shared, edits, widgets, supplied, refused>>

\* the user clicks "Export Result as CSV": the browser saves the data of the
\* button and the script runs again
ClickDownload(s) ==
  /\ FormShown(s)
  /\ download[s] # <<>>
  /\ StartRun(s, "download")
  /\ UNCHANGED <<shared, edits, widgets, supplied, refused>>

\* ----------------------------------------------------------------------
\* model = load_model() under @st.cache_resource (APP.py 100-104)
\* ----------------------------------------------------------------------
\* the cached call reads the entry first, without the compute lock
CacheLookup(s) ==
  /\ pc[s] = "load_model"
  /\ IF cache # 0
     THEN /\ model' = [model EXCEPT ![s] = cache]
          /\ pc' = [pc EXCEPT ![s] = "form"]
     ELSE /\ pc' = [pc EXCEPT ![s] = "miss"]
          /\ UNCHANGED model
  /\ UNCHANGED <<shared, trigger, req, edits, widgets, supplied, refused,
                 input_array, prediction, df_result, download, calls, err, prev>>

\* on a miss the caller takes the compute lock of the entry
AcquireLock(s) ==
  /\ pc[s] = "miss"
  /\ lock = 0
  /\ lock' = s
  /\ pc' = [pc EXCEPT ![s] = "locked"]
  /\ UNCHANGED <<artifact, cache, loads, fails, trigger, req, edits, widgets,
                 supplied, refused, locals>>

\* variant: the function is run under the lock without reading the entry again
HandleCacheMissNoRecheck(s) ==
  /\ pc[s] = "locked"
  /\ pc' = [pc EXCEPT ![s] = "compute"]
  /\ UNCHANGED <<shared, trigger, req, edits, widgets, supplied, refused, locals>>

\* under the lock the entry is read again before the function is run
HandleCacheMiss(s) ==
  /\ pc[s] = "locked"
  /\ IF cache # 0
     THEN /\ model' = [model EXCEPT ![s] = cache]
          /\ lock' = 0
          /\ pc' = [pc EXCEPT ![s] = "form"]
     ELSE /\ pc' = [pc EXCEPT ![s] = "compute"]
          /\ UNCHANGED <<model, lock>>
  /\ UNCHANGED <<artifact, cache, loads, fails, trigger, req, edits, widgets,
                 supplied, refused, input_array, prediction, df_result, download,
                 calls, err, prev>>

\* joblib.load("HGB_clean.pkl") returns a new estimator object
JoblibLoad(s) ==
  /\ pc[s] = "compute"
  /\ artifact = "ok"
  /\ loads' = loads + 1
  /\ model' = [model EXCEPT ![s] = loads + 1]
  /\ pc' = [pc EXCEPT ![s] = "computed"]
  /\ UNCHANGED <<artifact, cache, lock, fails, trigger, req, edits, widgets,
                 supplied, refused, input_array, prediction, df_result, download,
                 calls, err, prev>>

\* joblib.load raises: nothing is stored in the entry, the lock is released
\* and the exception ends the run at line 104
JoblibLoadRaises(s) ==
  /\ pc[s] = "compute"
  /\ artifact # "ok"
  /\ loads' = loads + 1
  /\ fails' = fails + 1
  /\ lock' = 0
  /\ err' = [err EXCEPT ![s] =
               IF artifact = "missing" THEN "FileNotFoundError" ELSE "UnpicklingError"]
  /\ pc' = [pc EXCEPT ![s] = "done"]
  /\ UNCHANGED <<artifact, cache, trigger, req, edits, widgets, supplied, refused,
                 model, input_array, prediction, df_result, download, calls, prev>>

\* variant: the value is returned without being stored
CacheWriteDropped(s) ==
  /\ pc[s] = "computed"
  /\ lock' = 0
  /\ pc' = [pc EXCEPT ![s] = "form"]
  /\ UNCHANGED <<artifact, cache, loads, fails, trigger, req, edits, widgets, supplied,
                 refused, locals>>

\* the value is stored in the entry and the lock released
CacheWrite(s) ==
  /\ pc[s] = "computed"
  /\ cache' = model[s]
  /\ lock' = 0
  /\ pc' = [pc EXCEPT ![s] = "form"]
  /\ UNCHANGED <<artifact, loads, fails, trigger, req, edits, widgets, supplied,
                 refused, locals>>

\* the operator puts a readable artifact in place
DeployArtifact ==
  /\ artifact # "ok"
  /\ artifact' = "ok"
  /\ UNCHANGED <<cache, lock, loads, fails, session, locals>>

\* ----------------------------------------------------------------------
\* The rest of the script (APP.py 106-164)
\* ----------------------------------------------------------------------
\* lines 106-139: the widgets return the values they hold; prediction and
\* df_result are set to None
Form(s) ==
  /\ pc[s] = "form"
  /\ prediction' = [prediction EXCEPT ![s] = <<>>]
  /\ df_result' = [df_result EXCEPT ![s] = <<>>]
  /\ pc' = [pc EXCEPT ![s] = "button"]
  /\ UNCHANGED <<shared, trigger, req, edits, widgets, supplied, refused, model,
                 input_array, download, calls, err, prev>>

\* variant: the prediction is made in every run, without the button
ButtonAlways(s) == TRUE

\* st.button(...) is True only in the run its click started
Button(s) == trigger[s] = "predict"

\* line 142, button not clicked
NoPredict(s) ==
  /\ pc[s] = "button"
  /\ ~Button(s)
  /\ pc' = [pc EXCEPT ![s] = "download"]
  /\ UNCHANGED <<shared, trigger, req, edits, widgets, supplied, refused, locals>>

\* lines 143-153: the vector is built, the estimator returns, the row is made
Predict(s) ==
  /\ pc[s] = "button"
  /\ Button(s)
  /\ LET x == InputArray(widgets[s])
         p == ModelPredict(model[s], x)
     IN  /\ input_array' = [input_array EXCEPT ![s] = <<x>>]
         /\ prediction' = [prediction EXCEPT ![s] = <<p>>]
         /\ df_result' = [df_result EXCEPT ![s] = <<DfResult(widgets[s], p)>>]
  /\ calls' = [calls EXCEPT ![s] = @ + 1]
  /\ pc' = [pc EXCEPT ![s] = "download"]
  /\ UNCHANGED <<shared, trigger, req, edits, widgets, supplied, refused, model,
                 download, err, prev>>

\* variant: the exception comes after the assignment of prediction
PredictRaisesPartial(s) ==
  /\ pc[s] = "button"
  /\ Button(s)
  /\ input_array' = [input_array EXCEPT ![s] = <<InputArray(widgets[s])>>]
  /\ prediction' = [prediction EXCEPT ![s] = <<0>>]
  /\ calls' = [calls EXCEPT ![s] = @ + 1]
  /\ err' = [err EXCEPT ![s] = "PredictError"]
  /\ pc' = [pc EXCEPT ![s] = "done"]
  /\ UNCHANGED <<shared, trigger, req, edits, widgets, supplied, refused, model,
                 df_result, download, prev>>

\* lines 143-144: model.predict raises; the exception ends the run
PredictRaises(s) ==
  /\ pc[s] = "button"
  /\ Button(s)
  /\ input_array' = [input_array EXCEPT ![s] = <<InputArray(widgets[s])>>]
  /\ calls' = [calls EXCEPT ![s] = @ + 1]
  /\ err' = [err EXCEPT ![s] = "PredictError"]
  /\ pc' = [pc EXCEPT ![s] = "done"]
  /\ UNCHANGED <<shared, trigger, req, edits, widgets, supplied, refused, model,
                 prediction, df_result, download, prev>>

\* lines 155-164: the download button is shown when there is a result
Download(s) ==
  /\ pc[s] = "download"
  /\ download' = [download EXCEPT ![s] =
                    IF prediction[s] # <<>> /\ df_result[s] # <<>>
                    THEN <<[data |-> ToCsv(df_result[s][1]), req |-> req[s]]>>
                    ELSE <<>>]
  /\ pc' = [pc EXCEPT ![s] = "done"]
  /\ UNCHANGED <<shared, trigger, req, edits, widgets, supplied, refused, model,
                 input_array, prediction, df_result, calls, err, prev>>

\* One visitor uses the form: the first session; the others stay away.
Visitor == CHOOSE s \in Sessions : \A t \in Sessions : s <= t

Next ==
  \/ Rerun(Visitor)
  \/ \E f \in NumberFields : \E v \in Typed(f) : NumberInputCommit(Visitor, f, v)
  \/ \E f \in NumberFields : \E v \in Typed(f) : NumberInputRefuse(Visitor, f, v)
  \/ \E o \in {Options[1], Options[2]} : Selectbox(Visitor, o)
  \/ ClickPredict(Visitor)
  \/ ClickDownload(Visitor)
  \/ CacheLookup(Visitor)
  \/ AcquireLock(Visitor)
  \/ HandleCacheMiss(Visitor)
  \/ JoblibLoad(Visitor)
  \/ JoblibLoadRaises(Visitor)
  \/ CacheWrite(Visitor)
  \/ DeployArtifact
  \/ Form(Visitor)
  \/ NoPredict(Visitor)
  \/ Predict(Visitor)
  \/ PredictRaises(Visitor)
  \/ Download(Visitor)

\* Every session uses the page at the same time, with the inputs left as
\* they are: the runs of the script interleave at each step of load_model.
NextLoad ==
  \/ \E s \in Sessions : Rerun(s)
  \/ \E s \in Sessions : ClickPredict(s)
  \/ \E s \in Sessions : ClickDownload(s)
  \/ \E s \in Sessions : CacheLookup(s)
  \/ \E s \in Sessions : AcquireLock(s)
  \/ \E s \in Sessions : HandleCacheMiss(s)
  \/ \E s \in Sessions : JoblibLoad(s)
  \/ \E s \in Sessions : JoblibLoadRaises(s)
  \/ \E s \in Sessions : CacheWrite(s)
  \/ DeployArtifact
  \/ \E s \in Sessions : Form(s)
  \/ \E s \in Sessions : NoPredict(s)
  \/ \E s \in Sessions : Predict(s)
  \/ \E s \in Sessions : PredictRaises(s)
  \/ \E s \in Sessions : Download(s)

Spec == Init /\ [][Next]_vars

SpecLoad == Init /\ [][NextLoad]_vars

\* ----------------------------------------------------------------------
\* Properties
\* ----------------------------------------------------------------------
InLoad(s) == pc[s] \in {"locked", "compute", "computed"}
PastLoad(s) == pc[s] \in {"form", "button", "download", "done"}

InRange(f, v) ==
  IF f = "modified" THEN v \in {0, 1} ELSE MinValue[f] <= v /\ v <= MaxValue[f]

C3_Original ==
  \A s \in Sessions :
    input_array[s] # <<>> =>
      LET w == widgets[s]
      IN  input_array[s][1] =
            <<w["T_H"], w["time"], w["ratio"], ModifiedVal(w["modified"]), w["C"],
              w["ONC"], w["HC"], w["OC"], w["BET"], w["pH"], w["T"], w["C0"]>>

\* C3 (amended): the vector lists the twelve fields in the order the form
\* declares them (T_H, time, modified flag, ratio, C, H/C, O/C, (O+N)/C, BET,
\* pH, T, C0); position i carries the value entered for the i-th of them.
C3_FixedOrder ==
  \A s \in Sessions :
    input_array[s] # <<>> =>
      /\ Len(input_array[s][1]) = 12
      /\ \A i \in 1..12 :
           input_array[s][1][i] =
             IF Fields[i] = "modified" THEN ModifiedVal(widgets[s]["modified"])
             ELSE widgets[s][Fields[i]]

\* a vector holding a value the user entered was passed to the model
C3_Witness ==
  \E s \in Sessions :
    /\ input_array[s] # <<>>
    /\ supplied[s] # {}
    /\ prediction[s] # <<>>

C5_RecordOnlyInItsRequest ==
  \A s \in Sessions :
    /\ (prediction[s] # <<>> \/ df_result[s] # <<>> \/ download[s] # <<>>) =>
         /\ trigger[s] = "predict"
         /\ calls[s] = 1
         /\ err[s] = "none"
         /\ prediction[s] # <<>>
         /\ df_result[s] # <<>>
    /\ download[s] # <<>> =>
         /\ download[s][1].req = req[s]
         /\ download[s][1].data = ToCsv(df_result[s][1])

\* an export is offered after an earlier export of the session was offered
\* and clicked
C5_Witness ==
  \E s \in Sessions : download[s] # <<>> /\ prev[s] # <<>> /\ req[s] >= 3

\* what the reader of the file gets for input i of the vector x, were the
\* value written as a number
AsNumber(x, i) == Num(IF Fields[i] = "modified" THEN 1000 * x[i] ELSE 10 * x[i])

\* C6 (as stated): the file read back gives every one of the 12 values of
\* the vector and the rounded capacity; "Modified" gives the 0/1 flag.
C6_Original ==
  \A s \in Sessions :
    download[s] # <<>> =>
      LET parsed == ParseCsv(download[s][1].data)
          x == input_array[s][1]
      IN  /\ \A i \in 1..12 : parsed[ColumnOf[Fields[i]]] = AsNumber(x, i)
          /\ parsed["Predicted Q (mmol/g)"] = Num(Round3(prediction[s][1]))

\* C6 (amended): the file read back gives the 11 numeric values of the
\* vector and the rounded capacity exactly; "Modified" gives the option text
\* No or Yes, the option whose flag (Yes 1, No 0) is in the vector.
C6_RoundTrip ==
  \A s \in Sessions :
    download[s] # <<>> =>
      LET parsed == ParseCsv(download[s][1].data)
          x == input_array[s][1]
      IN  /\ DOMAIN parsed = ColumnSet
          /\ \A i \in 1..12 :
               Fields[i] # "modified" => parsed[ColumnOf[Fields[i]]] = AsNumber(x, i)
          /\ parsed["Predicted Q (mmol/g)"] = Num(Round3(prediction[s][1]))
          /\ \E o \in {"No", "Yes"} :
               /\ parsed["Modified"] = Text(OptionChars[o])
               /\ ModifiedVal(o) = x[3]

\* an export of a prediction made with the flag set
C6_Witness ==
  \E s \in Sessions : download[s] # <<>> /\ input_array[s][1][3] = 1

C9_ColumnDependsOnOwnInput ==
  \A s \in Sessions :
    df_result[s] # <<>> /\ prev[s] # <<>> =>
      \A f \in FieldSet :
        prev[s][1].inputs[f] = widgets[s][f] =>
          prev[s][1].row[ColumnOf[f]] = df_result[s][1][ColumnOf[f]]

\* two predictions whose inputs differ in the ratio only
C9_Witness ==
  \E s \in Sessions :
    /\ df_result[s] # <<>>
    /\ prev[s] # <<>>
    /\ {f \in FieldSet : prev[s][1].inputs[f] # widgets[s][f]} = {"ratio"}

\* C10: a run calls the model at most once, and only if the predict button
\* started it.
C10_AtMostOneCall ==
  \A s \in Sessions :
    /\ calls[s] <= 1
    /\ calls[s] > 0 => trigger[s] = "predict"
    /\ err[s] = "PredictError" => calls[s] = 1 /\ pc[s] = "done"

\* a run started by the export button ended without a model call
C10_Witness ==
  \E s \in Sessions : trigger[s] = "download" /\ pc[s] = "done" /\ calls[s] = 0

====
